---- MODULE Spec2Model ----
(***************************************************************************)
(* Incremental document indexer and in-memory vector store of the college  *)
(* chatbot backend: services/indexer.js (runIndexer), services/vectorDb.js *)
(* (addChunksToDb, searchSimilarChunks), services/embedding.js and the     *)
(* startup sequence of server.js.                                          *)
(*                                                                         *)
(* Node runs every handler to its next `await` without interruption, so    *)
(* each action below is one such run-to-completion segment.                *)
(***************************************************************************)
EXTENDS Integers, Sequences, FiniteSets, TLC

(* ------------------------------ bounds --------------------------------- *)
NumDocs == 2        \* .json files under the data directory
MaxEdits == 1       \* times the environment rewrites a source file
MaxReindex == 1     \* POST /reindex requests accepted
MaxK == 3           \* largest topK handed to searchSimilarChunks
Dim == 2            \* dimensionality of the embedding vectors
SmallChunks == 2    \* chunks of a document that fits one batch
MaxChats == 1       \* POST /chat requests accepted
MaxRestarts == 1    \* times the process is stopped and started again
MaxWidth == 2       \* entries of an object, items of an array in a document

(* --------------------------- program constants ------------------------- *)
BATCH_SIZE == 10
TOP_K == 5

(* ------------------------------ universe ------------------------------- *)
Docs == 1..NumDocs
\* Byte contents a source file can have: a short document, one that needs
\* two embedding batches, and bytes that JSON.parse rejects.
Contents == {"small", "big", "bad"}
\* JavaScript `undefined` (Map.get of an absent key, an array read past the
\* end).  No digest and no vector of the model is an empty tuple.
Undefined == <<>>
StartupScan == 0
\* One more POST /reindex, accepted while an earlier one is still running.
OverlapScan == MaxReindex + 1
ScanIds == 0..OverlapScan
Component == {-1, 0, 1}
Vectors == [1..Dim -> Component]
Requests == 1..MaxChats
\* Request bodies of POST /chat: a question string, or no usable question.
Questions == {<<"question", 1>>, Undefined}
\* Texts the generation capability can return.
Answers == {1}

VARIABLES
    files,             \* data directory: document -> current bytes
    edits,             \* number of file rewrites so far
    collection,        \* vectorDb.js `collection`
    processedHashes,   \* indexer.js `processedHashes`
    nextId,            \* source of fresh crypto.randomUUID values
    server,            \* position of startServer
    scan,              \* one runIndexer activation per scan id
    lastSearch,        \* what searchSimilarChunks returned in the latest step
    visits,            \* history: documents each scan has looked at
    sent,              \* history: getEmbeddings calls of each scan
    cleanRun,          \* history: state of the latest undisturbed scan
    second,            \* history: scans that repeat an undisturbed scan
    passSize,          \* history: store size at the call and return of a scan,
                       \* rewrites before the call, scans active at the call
    chat,              \* routes/chat.js: one activation per request
    boots,             \* history: digests on record at each process restart
    segCall,           \* a call of the segmenter: parsed document and chunks
    cosCall            \* a call of cosineSimilarity: arguments and result

vars == <<files, edits, collection, processedHashes, nextId, server, scan,
          lastSearch, visits, sent, cleanRun, second, passSize, chat, boots,
          segCall, cosCall>>

(* ------------------------- sequence helpers ---------------------------- *)
Min(a, b) == IF a < b THEN a ELSE b

\* Array.prototype.slice(from, to) with 0-based, end-exclusive indices.
Slice(s, from, to) ==
    LET hi == Min(to, Len(s))
    IN  IF from >= hi THEN <<>> ELSE [k \in 1..(hi - from) |-> s[from + k]]

IsPrefix(s, t) == Len(s) <= Len(t) /\ \A k \in 1..Len(s) : s[k] = t[k]

(* ----------------------------- indexer.js ------------------------------ *)
\* crypto.createHash('sha256').update(content).digest('hex'): a digest per
\* byte content, distinct contents having distinct digests.
GetFileHash(content) == <<"sha256", content>>

\* findJsonFiles(DATA_DIR): the .json files in directory order.
FindJsonFiles == [k \in 1..NumDocs |-> k]

\* path.basename(filePath)
FileName(file) == <<"name", file>>

\* Number of chunks the segmenter cuts a content into; unparsable bytes hit
\* the catch of extractChunksFromJson and give none.
ChunkCount(content) ==
    CASE content = "small" -> SmallChunks
      [] content = "big"   -> BATCH_SIZE + SmallChunks
      [] content = "bad"   -> 0

ExtractChunksRawText(file, content) ==
    [k \in 1..(IF content = "bad" THEN 1 ELSE ChunkCount(content)) |->
        [text     |-> <<FileName(file), content, k>>,
         metadata |-> [source |-> FileName(file), path |-> file, section |-> k]]]

\* extractChunksFromJson(filePath): chunk k carries the text cut from these
\* bytes (prefixed with the file name) and the provenance metadata.
ExtractChunksFromJson(file, content) ==
    [k \in 1..ChunkCount(content) |->
        [text     |-> <<FileName(file), content, k>>,
         metadata |-> [source |-> FileName(file), path |-> file, section |-> k]]]

UnchangedNever(previousHash, currentHash) == FALSE

\* `if (previousHash === currentHash) continue;`
Unchanged(previousHash, currentHash) == previousHash = currentHash

\* One slot of the scan table before runIndexer is called for it.
IdleScan ==
    [pc |-> "idle", jsonFiles |-> <<>>, fi |-> 1, currentHash |-> Undefined,
     chunkData |-> <<>>, i |-> 0, totalUpserted |-> 0]

BatchOverlapping(sc) == Slice(sc.chunkData, sc.i, sc.i + BATCH_SIZE + 1)

\* `const batch = chunkData.slice(i, i + BATCH_SIZE)` of the running scan.
Batch(sc) == Slice(sc.chunkData, sc.i, sc.i + BATCH_SIZE)
Texts(batch) == [k \in 1..Len(batch) |-> batch[k].text]
Metadatas(batch) == [k \in 1..Len(batch) |-> batch[k].metadata]

MarkNothing(ph, file, currentHash) == ph

\* `processedHashes.set(file, currentHash)` after the batch loop.
MarkProcessed(ph, file, currentHash) == [ph EXCEPT ![file] = currentHash]

\* The body of `for (const file of jsonFiles)` from file number sc.fi on, up
\* to the first `await getEmbeddings(texts)` or to the end of the list.
\* cx = [sc: locals of the scan, ph: processedHashes, vl: visit history].
\* getFileHash and extractChunksFromJson each call fs.readFileSync: `hashed`
\* is the directory as the first read finds it, `parsed` as the second does.
RECURSIVE VisitFilesReading(_, _, _)
VisitFilesReading(cx, hashed, parsed) ==
    IF cx.sc.fi > Len(cx.sc.jsonFiles)
    THEN [cx EXCEPT !.sc.pc = "done"]
    ELSE
      LET file == cx.sc.jsonFiles[cx.sc.fi]
          currentHash == GetFileHash(hashed[file])
          previousHash == cx.ph[file]
          visit == [doc |-> file, prev |-> previousHash, cur |-> currentHash,
                    segmented |-> FALSE, nChunks |-> 0, done |-> TRUE,
                    read |-> Undefined]
      IN
      IF Unchanged(previousHash, currentHash)
      THEN VisitFilesReading([cx EXCEPT !.sc.fi = @ + 1,
                                        !.vl = Append(@, visit)],
                             hashed, parsed)
      ELSE
        LET chunkData == ExtractChunksFromJson(file, parsed[file])
            seen == [visit EXCEPT !.segmented = TRUE,
                                  !.nChunks = Len(chunkData),
                                  !.read = GetFileHash(parsed[file])]
        IN
        IF Len(chunkData) = 0
        THEN \* the batch loop has nothing to do: mark as processed
             VisitFilesReading(
                 [cx EXCEPT !.sc.fi = @ + 1,
                            !.ph = MarkProcessed(@, file, currentHash),
                            !.vl = Append(@, seen)], hashed, parsed)
        ELSE [cx EXCEPT !.sc.pc = "awaitEmbed",
                        !.sc.currentHash = currentHash,
                        !.sc.chunkData = chunkData,
                        !.sc.i = 0,
                        !.vl = Append(@, [seen EXCEPT !.done = FALSE])]

\* The two reads of a file find the same bytes.
VisitFiles(cx, fs) == VisitFilesReading(cx, fs, fs)

NextBatchMarkIfStored(cx, fs) ==
    LET j == cx.sc.i + BATCH_SIZE
        file == cx.sc.jsonFiles[cx.sc.fi]
    IN  IF j < Len(cx.sc.chunkData)
        THEN [cx EXCEPT !.sc.pc = "awaitEmbed", !.sc.i = j]
        ELSE VisitFiles(
               [cx EXCEPT !.sc.fi = @ + 1,
                          !.ph = IF cx.sc.totalUpserted > 0
                                 THEN MarkProcessed(@, file, cx.sc.currentHash)
                                 ELSE @,
                          !.vl[Len(cx.vl)].done = TRUE], fs)

NextBatchPropagating(cx, fs) ==
    LET j == cx.sc.i + BATCH_SIZE
    IN  IF j < Len(cx.sc.chunkData)
        THEN [cx EXCEPT !.sc.pc = "awaitEmbed", !.sc.i = j]
        ELSE [cx EXCEPT !.sc.pc = "raised"]

\* The step `i += BATCH_SIZE` of the batch loop and what follows it: the
\* next batch of the same document, or the mark and the next documents.
NextBatch(cx, fs) ==
    LET j == cx.sc.i + BATCH_SIZE
        file == cx.sc.jsonFiles[cx.sc.fi]
    IN  IF j < Len(cx.sc.chunkData)
        THEN [cx EXCEPT !.sc.pc = "awaitEmbed", !.sc.i = j]
        ELSE VisitFiles(
               [cx EXCEPT !.sc.fi = @ + 1,
                          !.ph = MarkProcessed(@, file, cx.sc.currentHash),
                          !.vl[Len(cx.vl)].done = TRUE], fs)

CountBatches(sc) == [sc EXCEPT !.totalUpserted = @ + 1]

\* `totalUpserted += texts.length`
CountUpserted(sc) == [sc EXCEPT !.totalUpserted = @ + Len(Batch(sc))]

\* The last line of runIndexer logs the count; the function returns nothing.
LoggedCount(sc) == sc.totalUpserted
RunIndexerResult(sc) == Undefined

\* runIndexer() from its call to its first await (or its return).
RunIndexer(ph, fs) ==
    VisitFiles([sc |-> [IdleScan EXCEPT !.jsonFiles = FindJsonFiles],
                ph |-> ph, vl |-> <<>>], fs)

(* ----------------------- indexer.js: the segmenter --------------------- *)
TARGET_WORDS == 350
OVERLAP_WORDS == 50

\* What JSON.parse returns: null, a string of a number of whitespace-
\* delimited words (numbers and booleans are rendered alike), an array, or
\* an object as the list of its entries; ParseError when it throws.
JNull == [t |-> "null"]
JText(n) == [t |-> "string", words |-> n]
JArray(items) == [t |-> "array", items |-> items]
JObject(entries) == [t |-> "object", entries |-> entries]
ParseError == [t |-> "error"]

\* `typeof value === 'object' && value !== null`
IsObject(value) == value.t \in {"array", "object"}

\* toReadableLabel(key)
ToReadableLabel(key) == <<"label", key>>

\* Number of words `${value}` splits into.
ValueWords(value) == IF value.t = "string" THEN value.words ELSE 1

\* The sentence `${contextPrefix}: ${value}.`, or `${value}.` without a
\* prefix; `words` is the length of line.split(/\s+/).
Sentence(contextPrefix, value) ==
    [prefix |-> contextPrefix, value |-> value,
     words |-> Len(contextPrefix) + ValueWords(value)]

RECURSIVE LinesDroppingNull(_, _)
LinesDroppingNull(obj, parentKey) ==
    IF obj.t = "array"
    THEN LET F[n \in 0..Len(obj.items)] ==
                 IF n = 0 THEN <<>>
                 ELSE F[n - 1] \o LinesDroppingNull(obj.items[n], parentKey)
         IN  F[Len(obj.items)]
    ELSE IF obj.t \in {"object", "null"}
    THEN LET entries == IF obj.t = "null" THEN <<>> ELSE obj.entries
             F[n \in 0..Len(entries)] ==
                 IF n = 0 THEN <<>>
                 ELSE LET contextPrefix ==
                              Append(parentKey, ToReadableLabel(entries[n].key))
                      IN  F[n - 1] \o LinesDroppingNull(entries[n].value,
                                                        contextPrefix)
         IN  F[Len(entries)]
    ELSE <<Sentence(parentKey, obj)>>

\* jsonToReadableTextLines(obj, parentKey): the context prefix is the list
\* of the readable labels on the way to the value.
RECURSIVE JsonToReadableTextLines(_, _)
JsonToReadableTextLines(obj, parentKey) ==
    IF obj.t = "array"
    THEN LET F[n \in 0..Len(obj.items)] ==
                 IF n = 0 THEN <<>>
                 ELSE F[n - 1] \o JsonToReadableTextLines(obj.items[n],
                                                          parentKey)
         IN  F[Len(obj.items)]
    ELSE IF obj.t = "object"
    THEN LET F[n \in 0..Len(obj.entries)] ==
                 IF n = 0 THEN <<>>
                 ELSE LET value == obj.entries[n].value
                          contextPrefix ==
                              Append(parentKey,
                                     ToReadableLabel(obj.entries[n].key))
                      IN  IF IsObject(value)
                          THEN F[n - 1] \o JsonToReadableTextLines(
                                              value, contextPrefix)
                          ELSE Append(F[n - 1],
                                      Sentence(contextPrefix, value))
         IN  F[Len(obj.entries)]
    ELSE <<Sentence(parentKey, obj)>>

\* A list of words is kept as runs: words from..to of line number idx.
WordsOf(line, idx) ==
    [prefix |-> line.prefix, value |-> line.value, idx |-> idx,
     from |-> 1, to |-> line.words]

RECURSIVE WordCount(_)
WordCount(runs) ==
    IF runs = <<>> THEN 0
    ELSE (runs[1].to - runs[1].from + 1) + WordCount(Tail(runs))

\* Array.prototype.slice(start) on a list of words; a negative start counts
\* from the end.
RECURSIVE DropWords(_, _)
DropWords(runs, n) ==
    IF n <= 0 \/ runs = <<>> THEN runs
    ELSE LET size == runs[1].to - runs[1].from + 1
         IN  IF size <= n THEN DropWords(Tail(runs), n - size)
             ELSE <<[runs[1] EXCEPT !.from = @ + n]>> \o Tail(runs)

SliceWords(runs, start) ==
    LET len == WordCount(runs)
    IN  DropWords(runs, IF start < 0 THEN (IF len + start < 0 THEN 0
                                           ELSE len + start)
                        ELSE start)

\* `allLines[i].split(':')[0] || fileName`: the prefix of the sentence, or
\* the whole sentence when it has none (it is never empty).
SectionLabel(line, fileName) ==
    IF line.prefix # <<>> THEN line.prefix ELSE <<"line", line.value>>

\* The loop over allLines of extractChunksFromJson from line number i on
\* (counted from 1), with the chunks and the current words so far.
RECURSIVE ChunkLoop(_, _, _, _, _, _)
ChunkLoop(fileName, filePath, allLines, i, chunks, currentWords) ==
    IF i > Len(allLines) THEN chunks
    ELSE
      LET words == Append(currentWords, WordsOf(allLines[i], i))
      IN  IF WordCount(words) >= TARGET_WORDS \/ i = Len(allLines)
          THEN
            LET chunk == [text |-> [header |-> fileName, body |-> words],
                          metadata |->
                            [source |-> fileName, path |-> filePath,
                             section |-> SectionLabel(allLines[i], fileName)]]
                kept == IF i < Len(allLines)
                        THEN SliceWords(words,
                                        WordCount(words) - OVERLAP_WORDS)
                        ELSE words
            IN  ChunkLoop(fileName, filePath, allLines, i + 1,
                          Append(chunks, chunk), kept)
          ELSE ChunkLoop(fileName, filePath, allLines, i + 1, chunks, words)

\* extractChunksFromJson for a file whose bytes JSON.parse turns into
\* `parsed` (or rejects).
ExtractChunks(file, parsed) ==
    IF parsed = ParseError THEN <<>>
    ELSE ChunkLoop(FileName(file), file,
                   JsonToReadableTextLines(parsed, <<>>), 1, <<>>, <<>>)

\* Parsed documents up to two levels of nesting: the leaves are null and a
\* long string, the keys of an object are the first of Keys.
Keys == <<"name", "headOfDepartment", "office_hours">>
Leaves == {JNull, JText(TARGET_WORDS - 5)}
ListsOver(values) == UNION {[1..n -> values] : n \in 0..MaxWidth}
Containers(values) ==
    {JArray(items) : items \in ListsOver(values)}
      \cup {JObject([n \in 1..Len(items) |->
                       [key |-> Keys[n], value |-> items[n]]]) :
               items \in ListsOver(values)}
Level1 == Leaves \cup Containers(Leaves)
JsonDocs == Level1 \cup Containers(Level1)

(* ---------------------------- embedding.js ----------------------------- *)
\* The vector the embedding model computes for a text.
EmbedOf(text) ==
    LET d == text[1][2]
        k == text[3]
        c == IF text[2] = "big" THEN 1 ELSE 0
    IN  [j \in 1..Dim |-> ((d + k * j + c) % 3) - 1]

\* What `await getEmbeddings(texts)` can resolve to: the list of one vector
\* per text, or (as the caller anticipates) a single flat vector.
Shapes == {"nested", "flat"}
Response(shape, texts) ==
    IF shape = "nested"
    THEN [kind |-> "nested", val |-> [k \in 1..Len(texts) |-> EmbedOf(texts[k])]]
    ELSE [kind |-> "flat", val |-> EmbedOf(texts[1])]

\* `Array.isArray(embeddings[0]) ? embeddings : [embeddings]`
ValidEmbeddings(embeddings) ==
    IF embeddings.kind = "nested" THEN embeddings.val ELSE <<embeddings.val>>

(* ----------------------------- vectorDb.js ----------------------------- *)
AddChunksReversed(coll, ids, embeddings, metadatas, documents) ==
    coll \o [k \in 1..Len(ids) |->
               [id        |-> ids[k],
                embedding |-> IF Len(ids) + 1 - k <= Len(embeddings)
                              THEN embeddings[Len(ids) + 1 - k]
                              ELSE Undefined,
                metadata  |-> metadatas[k],
                document  |-> documents[k]]]

AddChunksReplacing(coll, ids, embeddings, metadatas, documents) ==
    SelectSeq(coll, LAMBDA r : r.metadata.path # metadatas[1].path)
      \o [k \in 1..Len(ids) |->
               [id        |-> ids[k],
                embedding |-> IF k <= Len(embeddings) THEN embeddings[k]
                                                      ELSE Undefined,
                metadata  |-> metadatas[k],
                document  |-> documents[k]]]

\* addChunksToDb: one push per id; embeddings[i] past the end is undefined.
AddChunksToDb(coll, ids, embeddings, metadatas, documents) ==
    coll \o [k \in 1..Len(ids) |->
               [id        |-> ids[k],
                embedding |-> IF k <= Len(embeddings) THEN embeddings[k]
                                                      ELSE Undefined,
                metadata  |-> metadatas[k],
                document  |-> documents[k]]]

CatchAndStore(coll, batch) ==
    coll \o [k \in 1..Len(batch) |->
               [id |-> 0, embedding |-> Undefined,
                metadata |-> batch[k].metadata, document |-> batch[k].text]]

\* The catch block of the batch loop only logs.
CatchBatchError(coll, batch) == coll

(* ---------------- JavaScript numbers (IEEE-754 binary64) --------------- *)
\* Natural numbers of any size: lists of limbs in base 2^15, least
\* significant limb first, no zero limb at the top; <<>> is zero.
BASE == 32768
LIMB_BITS == 15

RECURSIVE Trim(_)
Trim(a) == IF a = <<>> THEN a
           ELSE IF a[Len(a)] = 0 THEN Trim(SubSeq(a, 1, Len(a) - 1)) ELSE a

RECURSIVE BigOf(_)
BigOf(n) == IF n = 0 THEN <<>> ELSE <<n % BASE>> \o BigOf(n \div BASE)

RECURSIVE BitLen(_)
BitLen(a) ==
    IF a = <<>> THEN 0
    ELSE IF Len(a) > 1 THEN LIMB_BITS * (Len(a) - 1) + BitLen(<<a[Len(a)]>>)
    ELSE IF a[1] = 0 THEN 0
    ELSE 1 + BitLen(<<a[1] \div 2>>)

Limb(a, i) == IF i <= Len(a) THEN a[i] ELSE 0

\* -1, 0 or 1 as a < b, a = b or a > b, looking at the limbs i and below
\* when the lengths are equal
RECURSIVE Cmp(_, _, _)
Cmp(a, b, i) ==
    IF Len(a) < Len(b) THEN -1
    ELSE IF Len(a) > Len(b) THEN 1
    ELSE IF i = 0 THEN 0
    ELSE IF a[i] < b[i] THEN -1
    ELSE IF a[i] > b[i] THEN 1
    ELSE Cmp(a, b, i - 1)

\* the limbs i.. of a + b + carry
RECURSIVE Add(_, _, _, _)
Add(a, b, i, carry) ==
    IF i > Len(a) /\ i > Len(b)
    THEN IF carry = 0 THEN <<>> ELSE <<carry>>
    ELSE <<(Limb(a, i) + Limb(b, i) + carry) % BASE>>
           \o Add(a, b, i + 1, (Limb(a, i) + Limb(b, i) + carry) \div BASE)

\* the limbs i.. of a - b - borrow, for a >= b
RECURSIVE SubFrom(_, _, _, _)
SubFrom(a, b, i, borrow) ==
    IF i > Len(a) THEN <<>>
    ELSE IF a[i] - Limb(b, i) - borrow < 0
    THEN <<a[i] - Limb(b, i) - borrow + BASE>> \o SubFrom(a, b, i + 1, 1)
    ELSE <<a[i] - Limb(b, i) - borrow>> \o SubFrom(a, b, i + 1, 0)

Sub(a, b) == Trim(SubFrom(a, b, 1, 0))

\* the limbs i.. of a * k + carry, for a limb k
RECURSIVE MulSmall(_, _, _, _)
MulSmall(a, k, i, carry) ==
    IF i > Len(a) THEN (IF carry = 0 THEN <<>> ELSE <<carry>>)
    ELSE <<(a[i] * k + carry) % BASE>>
           \o MulSmall(a, k, i + 1, (a[i] * k + carry) \div BASE)

ShiftLimbs(a, n) == IF a = <<>> THEN <<>> ELSE [i \in 1..n |-> 0] \o a

\* a times the limbs i.. of b
RECURSIVE Mul(_, _, _)
Mul(a, b, i) ==
    IF i > Len(b) THEN <<>>
    ELSE IF b[i] = 0 THEN Mul(a, b, i + 1)
    ELSE Add(ShiftLimbs(MulSmall(a, b[i], 1, 0), i - 1), Mul(a, b, i + 1), 1, 0)

\* a * 2^d
Shl(a, d) ==
    ShiftLimbs(MulSmall(a, 2 ^ (d % LIMB_BITS), 1, 0), d \div LIMB_BITS)

\* floor(a / k) for a limb k: the limbs i and below, after remainder rem
RECURSIVE DivSmall(_, _, _, _)
DivSmall(a, k, i, rem) ==
    IF i = 0 THEN <<>>
    ELSE DivSmall(a, k, i - 1, (rem * BASE + a[i]) % k)
           \o <<(rem * BASE + a[i]) \div k>>

\* floor(a / 2^d)
Shr(a, d) ==
    IF d \div LIMB_BITS >= Len(a) THEN <<>>
    ELSE Trim(DivSmall(SubSeq(a, (d \div LIMB_BITS) + 1, Len(a)),
                       2 ^ (d % LIMB_BITS), Len(a) - (d \div LIMB_BITS), 0))

\* bit number i of a, bit 0 being the lowest
Bit(a, i) ==
    (Limb(a, (i \div LIMB_BITS) + 1) \div (2 ^ (i % LIMB_BITS))) % 2

\* some bit below bit number d of a is set
LowBits(a, d) ==
    \/ \E i \in 1..(d \div LIMB_BITS) : Limb(a, i) # 0
    \/ Limb(a, (d \div LIMB_BITS) + 1) % (2 ^ (d % LIMB_BITS)) # 0

\* Long division in base 2^15 by a divisor d whose top limb is at least
\* 2^14: floor(rem / d) for rem < d * 2^15, from a guess not below it
\* (the one made from the top limbs is at most two above it).
RECURSIVE Digit(_, _, _)
Digit(rem, d, guess) ==
    IF guess > BASE - 1 THEN Digit(rem, d, BASE - 1)
    ELSE IF guess = 0 THEN 0
    ELSE IF Cmp(MulSmall(d, guess, 1, 0), rem, Len(rem)) <= 0 THEN guess
    ELSE Digit(rem, d, guess - 1)

\* The quotient of n by d: q and r are the quotient and the remainder of
\* the limbs above limb i of n.
DivFrom[n, d, q, r \in Seq(Nat), i \in Nat] ==
    IF i = 0 THEN q
    ELSE
      LET rem == Trim(<<n[i]>> \o r)
          digit == Digit(rem, d, (Limb(rem, Len(d) + 1) * BASE
                                    + Limb(rem, Len(d))) \div d[Len(d)])
      IN  DivFrom[n, d, <<digit>> \o q,
                  Sub(rem, MulSmall(d, digit, 1, 0)), i - 1]

\* floor(n / d) for d # 0
Div(n, d) ==
    LET s == LIMB_BITS - BitLen(<<d[Len(d)]>>)
    IN  Trim(DivFrom[Shl(n, s), Shl(d, s), <<>>, <<>>, Len(Shl(n, s))])

\* floor(sqrt(x)) by Newton's iteration from a root r above it
SqrtFrom[x \in Seq(Nat), r \in Seq(Nat)] ==
    IF Cmp(Div(x, r), r, Len(r)) >= 0 THEN r
    ELSE SqrtFrom[x, Shr(Add(r, Div(x, r), 1, 0), 1)]

ISqrt(x) == IF x = <<>> THEN <<>>
            ELSE SqrtFrom[x, Shl(<<1>>, (BitLen(x) + 1) \div 2)]

\* A JavaScript number: a finite value s * m * 2^e (m = <<>> for a zero),
\* an infinity, or NaN.  A finite non-zero value is kept in the one form
\* binary64 has for it: m of 53 bits, or of fewer bits at the least
\* exponent (a subnormal).
MANT_BITS == 53
MIN_EXP == -1074
MAX_EXP == 971
Zero(s) == [k |-> "fin", s |-> s, m |-> <<>>, e |-> 0]
Inf(s) == [k |-> "inf", s |-> s, m |-> <<>>, e |-> 0]
NaN == [k |-> "nan", s |-> 1, m |-> <<>>, e |-> 0]
IsZero(x) == x.k = "fin" /\ x.m = <<>>
Neg(x) == IF x.k = "nan" THEN x ELSE [x EXCEPT !.s = -x.s]

\* The finite value s * m * 2^q, m of at most 54 bits with q already at
\* least MIN_EXP, in its binary64 form (or the infinity it overflows to).
Normal(s, m, q) ==
    IF m = <<>> THEN Zero(s)
    ELSE IF q + BitLen(m) - MANT_BITS > MAX_EXP THEN Inf(s)
    ELSE IF BitLen(m) > MANT_BITS
    THEN [k |-> "fin", s |-> s, m |-> Shr(m, 1), e |-> q + 1]
    ELSE [k |-> "fin", s |-> s, m |-> m, e |-> q]

\* the exponent at which m * 2^e has 53 bits, or the least exponent
ExpOf(m, e) ==
    IF e + BitLen(m) - MANT_BITS > MIN_EXP THEN e + BitLen(m) - MANT_BITS
    ELSE MIN_EXP

\* m / 2^d rounded to nearest, ties to even; sticky says that something
\* below m was left out
RoundAt(m, d, sticky) ==
    IF d <= 0 THEN Shl(m, -d)
    ELSE IF /\ Bit(m, d - 1) = 1
            /\ (LowBits(m, d - 1) \/ sticky \/ Bit(m, d) = 1)
    THEN Add(Shr(m, d), <<1>>, 1, 0)
    ELSE Shr(m, d)

\* Round to nearest, ties to even: the binary64 value nearest to
\* s * (m + f) * 2^e, where 0 < f < 1 if sticky and f = 0 otherwise.
RoundTo(s, m, e, sticky) ==
    Normal(s, RoundAt(m, ExpOf(m, e) - e, sticky), ExpOf(m, e))

\* The number with the integer value n * 2^e (|n| < 2^31).
Num(n, e) == RoundTo(IF n < 0 THEN -1 ELSE 1,
                     BigOf(IF n < 0 THEN -n ELSE n), e, FALSE)

\* x * y
FMul(x, y) ==
    IF x.k = "nan" \/ y.k = "nan" THEN NaN
    ELSE IF x.k = "inf" \/ y.k = "inf"
    THEN IF IsZero(x) \/ IsZero(y) THEN NaN ELSE Inf(x.s * y.s)
    ELSE RoundTo(x.s * y.s, Mul(x.m, y.m, 1), x.e + y.e, FALSE)

\* The sum of sa * a * 2^e and sb * b * 2^e, neither being zero.
AddAligned(sa, a, sb, b, e, sticky) ==
    IF sa # sb /\ Cmp(a, b, Len(a)) = 0 THEN Zero(1)
    ELSE RoundTo(IF sa = sb \/ Cmp(a, b, Len(a)) > 0 THEN sa ELSE sb,
                 IF sa = sb THEN Add(a, b, 1, 0)
                 ELSE IF Cmp(a, b, Len(a)) > 0 THEN Sub(a, b)
                 ELSE Sub(b, a),
                 e, sticky)

\* hi + lo for finite non-zero numbers, hi having the larger exponent.
\* A number lo that lies wholly below GUARD_BITS further bits of hi
\* counts as a quarter of the last bit of hi, and inexact: only its
\* presence and its side matter to the rounding.
GUARD_BITS == 64
AddOrdered(hi, lo) ==
    IF hi.e - lo.e > GUARD_BITS
    THEN AddAligned(hi.s, Shl(hi.m, 2), lo.s, <<1>>, hi.e - 2, TRUE)
    ELSE AddAligned(hi.s, Shl(hi.m, hi.e - lo.e), lo.s, lo.m, lo.e, FALSE)

\* x + y
FAdd(x, y) ==
    IF x.k = "nan" \/ y.k = "nan" THEN NaN
    ELSE IF x.k = "inf"
    THEN IF y.k = "inf" /\ y.s # x.s THEN NaN ELSE x
    ELSE IF y.k = "inf" THEN y
    ELSE IF IsZero(x) /\ IsZero(y)
    THEN Zero(IF x.s = -1 /\ y.s = -1 THEN -1 ELSE 1)
    ELSE IF IsZero(x) THEN y
    ELSE IF IsZero(y) THEN x
    ELSE AddOrdered(IF x.e >= y.e THEN x ELSE y, IF x.e >= y.e THEN y ELSE x)

FSub(x, y) == FAdd(x, Neg(y))

\* The binary64 value nearest to s * (n / d) * 2^e, or to
\* s * sqrt(n) * 2^e with d the root itself, from quotient, the integer
\* part of the quotient or root: it is exact when quotient * d = n.
RoundInexact(s, quotient, d, n, e) ==
    RoundTo(s, quotient, e, Mul(quotient, d, 1) # n)

\* Math.sqrt(x)
FSqrt(x) ==
    IF x.k = "nan" THEN NaN
    ELSE IF IsZero(x) THEN x
    ELSE IF x.s = -1 THEN NaN
    ELSE IF x.k = "inf" THEN x
    ELSE
      LET k == 110 - BitLen(x.m) + ((x.e - 110 + BitLen(x.m)) % 2)
      IN  RoundInexact(1, ISqrt(Shl(x.m, k)), ISqrt(Shl(x.m, k)),
                       Shl(x.m, k), (x.e - k) \div 2)

\* x / y
FDiv(x, y) ==
    IF x.k = "nan" \/ y.k = "nan" THEN NaN
    ELSE IF x.k = "inf"
    THEN IF y.k = "inf" THEN NaN ELSE Inf(x.s * y.s)
    ELSE IF y.k = "inf" THEN Zero(x.s * y.s)
    ELSE IF IsZero(y)
    THEN IF IsZero(x) THEN NaN ELSE Inf(x.s * y.s)
    ELSE IF IsZero(x) THEN Zero(x.s * y.s)
    ELSE
      LET k == IF 56 + BitLen(y.m) - BitLen(x.m) < 0 THEN 0
               ELSE 56 + BitLen(y.m) - BitLen(x.m)
      IN  RoundInexact(x.s * y.s, Div(Shl(x.m, k), y.m), y.m, Shl(x.m, k),
                       x.e - y.e - k)

\* -1, 0 or 1 as x is negative, a zero or NaN, or positive
SignOf(x) == IF x.k = "nan" \/ IsZero(x) THEN 0 ELSE x.s

(* ----------------------- vectorDb.js: the search ----------------------- *)
\* The components of a vector of the store or of a query as numbers.
Numbers(vec) == [i \in 1..Len(vec) |-> Num(vec[i], 0)]

\* The loop of cosineSimilarity: the sum, from 0.0, over the indices of
\* vecA.
RECURSIVE SumProducts(_, _, _)
SumProducts(vecA, vecB, n) ==
    IF n = 0 THEN Zero(1)
    ELSE FAdd(SumProducts(vecA, vecB, n - 1), FMul(vecA[n], vecB[n]))

SquaredNorm(vec, n) == SumProducts(vec, vec, n)

DenominatorNoRoots(normA, normB) == FMul(normA, normB)

\* Math.sqrt(normA) * Math.sqrt(normB)
Denominator(normA, normB) == FMul(FSqrt(normA), FSqrt(normB))

CosineNoZeroCheck(vecA, vecB) ==
    FDiv(SumProducts(vecA, vecB, Len(vecA)),
         Denominator(SquaredNorm(vecA, Len(vecA)),
                     SquaredNorm(vecB, Len(vecA))))

\* cosineSimilarity(vecA, vecB) = dotProduct / (sqrt(normA) * sqrt(normB)),
\* and 0 when a norm is 0.
CosineSimilarity(vecA, vecB) ==
    LET dotProduct == SumProducts(vecA, vecB, Len(vecA))
        normA == SquaredNorm(vecA, Len(vecA))
        normB == SquaredNorm(vecB, Len(vecA))
    IN  IF IsZero(normA) \/ IsZero(normB)
        THEN Zero(1)
        ELSE FDiv(dotProduct, Denominator(normA, normB))

\* The scores of the vectors the store and the queries can hold, and the
\* differences of two of them.  `@@` makes each an explicit table, which
\* TLC computes once.
ScoreTable ==
    [p \in Vectors \X Vectors |->
        CosineSimilarity(Numbers(p[1]), Numbers(p[2]))] @@ <<>>
Score(queryEmbedding, embedding) == ScoreTable[<<queryEmbedding, embedding>>]
Scores == {ScoreTable[p] : p \in Vectors \X Vectors}
Differences == [p \in Scores \X Scores |-> FSub(p[1], p[2])] @@ <<>>

\* Sign of `b.score - a.score`, the comparator handed to Array.sort.
Comparator(a, b) == SignOf(Differences[<<b.score, a.score>>])

\* `sorted` with x put in as its element number pos + 1
InsertAt(sorted, x, pos) ==
    [k \in 1..(Len(sorted) + 1) |->
        IF k <= pos THEN sorted[k]
        ELSE IF k = pos + 1 THEN x ELSE sorted[k - 1]]

InsertBeforeEqual(sorted, x) ==
    InsertAt(sorted, x,
             Cardinality({k \in 1..Len(sorted) : Comparator(sorted[k], x) < 0}))

\* Array.prototype.sort is stable: an element goes behind every element the
\* comparator does not put after it.
InsertSorted(sorted, x) ==
    InsertAt(sorted, x,
             Cardinality({k \in 1..Len(sorted) : Comparator(sorted[k], x) <= 0}))

RECURSIVE SortScored(_, _)
SortScored(scored, n) ==
    IF n = 0 THEN <<>> ELSE InsertSorted(SortScored(scored, n - 1), scored[n])

\* What a call of searchSimilarChunks returns; `store` is not part of the
\* returned value: it is the array `collection` as the call leaves it.
NoSearch ==
    [status |-> "none", q |-> <<>>, topK |-> 0, size |-> 0, order |-> <<>>,
     documents |-> <<>>, metadatas |-> <<>>, distances |-> <<>>,
     store |-> <<>>]

\* collection.map(item => ({...item, score})); `pos` remembers which stored
\* record an element came from.
Scored(coll, queryEmbedding) ==
    [k \in 1..Len(coll) |->
        [pos |-> k, document |-> coll[k].document,
         metadata |-> coll[k].metadata,
         score |-> Score(queryEmbedding, coll[k].embedding)]]

\* The value returned for the sorted and cut list `top`.  `order` is not
\* part of the returned value: it remembers which stored record each
\* result came from.
SearchResult(call, top) ==
    [call EXCEPT !.status = "ok",
                 !.order = [k \in 1..Len(top) |-> top[k].pos],
                 !.documents = [k \in 1..Len(top) |-> top[k].document],
                 !.metadatas = [k \in 1..Len(top) |-> top[k].metadata],
                 !.distances = [k \in 1..Len(top) |-> top[k].score]]

SortInPlace(coll, scored) == [k \in 1..Len(scored) |-> coll[scored[k].pos]]

\* `scored.sort(...)` sorts in place the array it is called on, which is
\* the one `map` built: `collection` keeps its records and their order.
SortCopy(coll, scored) == coll

\* The sort, the cut and the return of searchSimilarChunks, `scored` being
\* the mapped array after the sort.
SortAndCut(call, coll, scored, topK) ==
    SearchResult([call EXCEPT !.store = SortCopy(coll, scored)],
                 Slice(scored, 0, topK))

\* searchSimilarChunks(queryEmbedding, topK).  Reading `item.embedding[i]`
\* of a record without embedding throws.
SearchSimilarChunks(coll, queryEmbedding, topK) ==
    LET call == [NoSearch EXCEPT !.q = queryEmbedding, !.topK = topK,
                                 !.size = Len(coll), !.store = coll]
    IN
    IF Len(coll) = 0 THEN [call EXCEPT !.status = "ok"]
    ELSE IF \E k \in 1..Len(coll) : coll[k].embedding = Undefined
    THEN [call EXCEPT !.status = "raised"]
    ELSE SortAndCut(call, coll,
                    SortScored(Scored(coll, queryEmbedding), Len(coll)), topK)

(* ---------------------------- routes/chat.js --------------------------- *)
NoResponse == [status |-> 0, kind |-> "none", answer |-> <<>>, sources |-> <<>>]
\* res.status(400).json({error}) and res.status(500).json({error, ...})
BadRequest == [NoResponse EXCEPT !.status = 400, !.kind = "error"]
ServerError == [NoResponse EXCEPT !.status = 500, !.kind = "error"]
\* "I don't have enough information to answer that."
INSUFFICIENT == <<"insufficient", 0>>
Generated(a) == <<"generated", a>>
\* res.json({answer, sources})
Answer(answer, sources) ==
    [status |-> 200, kind |-> "answer", answer |-> answer, sources |-> sources]

\* One slot of the request table before the handler is called for it.
\* embedCalls and llmCalls count the handler's calls of getEmbeddings and
\* fetchLlmResponse, `raised` remembers which of the two rejected.
NoChat ==
    [pc |-> "idle", question |-> Undefined, questionEmbedding |-> Undefined,
     chunksText |-> <<>>, chunksMeta |-> <<>>, embedCalls |-> 0,
     llmCalls |-> 0, raised |-> "none", response |-> NoResponse]

\* The handler from its call to `await getEmbeddings([question])`.
ChatStart(question) ==
    IF question = Undefined
    THEN [NoChat EXCEPT !.pc = "done", !.response = BadRequest]
    ELSE [NoChat EXCEPT !.pc = "awaitEmbed", !.question = question,
                        !.embedCalls = 1]

\* `Array.isArray(result[0]) ? result[0] : result`
QuestionEmbedding(result) ==
    IF result.kind = "nested" THEN result.val[1] ELSE result.val

CatchAndRetry(c) ==
    IF c.pc = "awaitEmbed" /\ c.embedCalls < 2
    THEN [c EXCEPT !.embedCalls = @ + 1]
    ELSE IF c.pc = "awaitLlm" /\ c.llmCalls < 2
    THEN [c EXCEPT !.llmCalls = @ + 1]
    ELSE [c EXCEPT !.pc = "done", !.response = ServerError]

\* The catch block of the handler.
CatchChatError(c) == [c EXCEPT !.pc = "done", !.response = ServerError]

AfterSearchAlwaysGenerate(c, search) ==
    IF search.status = "raised" THEN CatchChatError(c)
    ELSE [c EXCEPT !.pc = "awaitLlm", !.llmCalls = @ + 1,
                   !.chunksText = search.documents,
                   !.chunksMeta = search.metadatas]

\* The handler from the result of searchSimilarChunks to the reply for an
\* empty context or to `await fetchLlmResponse(...)`.
AfterSearch(c, search) ==
    IF search.status = "raised" THEN CatchChatError(c)
    ELSE
      LET chunksText == search.documents
          chunksMeta == search.metadatas
      IN  IF Len(chunksText) = 0
          THEN [c EXCEPT !.pc = "done",
                         !.response = Answer(INSUFFICIENT, <<>>)]
          ELSE [c EXCEPT !.pc = "awaitLlm", !.llmCalls = @ + 1,
                         !.chunksText = chunksText, !.chunksMeta = chunksMeta]

SourcesNoDedup(chunksMeta, n) ==
    [k \in 1..n |-> chunksMeta[k].source]

\* sourcesSet filled by chunksMeta.forEach, then Array.from(sourcesSet): the
\* sources of the first n metadatas in order of first occurrence.
RECURSIVE SourcesArray(_, _)
SourcesArray(chunksMeta, n) ==
    IF n = 0 THEN <<>>
    ELSE
      LET sourcesSet == SourcesArray(chunksMeta, n - 1)
          meta == chunksMeta[n]
      IN  IF meta # Undefined /\ meta.source # Undefined
             /\ \A k \in 1..Len(sourcesSet) : sourcesSet[k] # meta.source
          THEN Append(sourcesSet, meta.source)
          ELSE sourcesSet

\* No call of a function under study has been made.
NoCall == [done |-> FALSE]

(* ------------------------------ history -------------------------------- *)
Active(sc) == sc.pc \in {"awaitEmbed", "awaitAdd"}

\* The getEmbeddings call a scan is waiting for.
PendingCall(sc) ==
    [doc |-> sc.jsonFiles[sc.fi], offset |-> sc.i,
     texts |-> Texts(Batch(sc)), metadatas |-> Metadatas(Batch(sc)),
     outcome |-> "pending", ret |-> [kind |-> "none", val |-> <<>>],
     ids |-> <<>>]

\* The call log of a scan once its pending call is settled and the scan has
\* moved on to sc.
Logged(log, settled, sc) ==
    LET closed == [log EXCEPT ![Len(log)] = settled]
    IN  IF sc.pc = "awaitEmbed" THEN Append(closed, PendingCall(sc))
                                ELSE closed

Dirty == [st |-> "dirty", id |-> 0]
NotReturned == -1

\* A scan is undisturbed when no file is rewritten and no other scan is
\* active from its call to its return.
StartHistory(s, sc) ==
    LET othersActive == \E t \in ScanIds \ {s} : Active(scan[t])
    IN  /\ second' = [t \in ScanIds |->
                        IF t = s THEN cleanRun.st = "completed"
                        ELSE IF Active(scan[t]) THEN FALSE ELSE second[t]]
        /\ cleanRun' = IF othersActive THEN Dirty
                       ELSE IF sc.pc = "done" THEN [st |-> "completed", id |-> 0]
                       ELSE [st |-> "running", id |-> s]
        /\ passSize' = [passSize EXCEPT ![s] =
                          [call |-> Len(collection),
                           ret  |-> IF sc.pc = "done" THEN Len(collection)
                                                      ELSE NotReturned,
                           edits |-> edits,
                           during |-> {t \in ScanIds \ {s} :
                                          Active(scan[t])}]]

ResumeHistory(s, sc, size) ==
    /\ cleanRun' = IF cleanRun = [st |-> "running", id |-> s] /\ sc.pc = "done"
                   THEN [st |-> "completed", id |-> 0] ELSE cleanRun
    /\ passSize' = IF sc.pc = "done"
                   THEN [passSize EXCEPT ![s].ret = size]
                   ELSE passSize
    /\ UNCHANGED second

(* ------------------------------- actions ------------------------------- *)
KeepProcessedHashes(previous) == previous

\* `const processedHashes = new Map()` at module load: nothing of an earlier
\* process is read back.
NewProcessedHashes(previous) == [d \in Docs |-> Undefined]

\* `let collection = []` at module load.
NewCollection == <<>>

Init ==
    /\ files \in [Docs -> Contents]
    /\ edits = 0
    /\ collection = NewCollection
    /\ processedHashes = NewProcessedHashes([d \in Docs |-> Undefined])
    /\ boots = <<>>
    /\ segCall = NoCall
    /\ cosCall = NoCall
    /\ nextId = 1
    /\ server = "boot"
    /\ scan = [s \in ScanIds |-> IdleScan]
    /\ lastSearch = NoSearch
    /\ visits = [s \in ScanIds |-> <<>>]
    /\ sent = [s \in ScanIds |-> <<>>]
    /\ cleanRun = [st |-> "none", id |-> 0]
    /\ second = [s \in ScanIds |-> FALSE]
    /\ passSize = [s \in ScanIds |->
                     [call |-> 0, ret |-> NotReturned, edits |-> 0,
                      during |-> {}]]
    /\ chat = [r \in Requests |-> NoChat]

\* vectorDb.js initializeVectorDb, awaited first by startServer.
InitializeVectorDb ==
    /\ server = "boot"
    /\ server' = "initialized"
    /\ collection' = <<>>
    /\ UNCHANGED <<files, edits, processedHashes, nextId, scan, visits,
                   sent, cleanRun, second, passSize, chat, boots,
                   segCall, cosCall>>
    /\ lastSearch' = NoSearch

\* A call of runIndexer for scan s, up to its first await.
Begin(s) ==
    LET cx == RunIndexer(processedHashes, files)
    IN  /\ scan' = [scan EXCEPT ![s] = cx.sc]
        /\ processedHashes' = cx.ph
        /\ visits' = [visits EXCEPT ![s] = cx.vl]
        /\ sent' = [sent EXCEPT ![s] = IF cx.sc.pc = "awaitEmbed"
                                        THEN <<PendingCall(cx.sc)>> ELSE <<>>]
        /\ StartHistory(s, cx.sc)

\* startServer: `await runIndexer()` after the store is initialised.
StartupIndex ==
    /\ server = "initialized"
    /\ server' = "indexing"
    /\ Begin(StartupScan)
    /\ lastSearch' = NoSearch
    /\ UNCHANGED <<files, edits, collection, nextId, chat, boots,
                   segCall, cosCall>>

StartupStarted(sc) == sc.pc # "idle"

\* startServer: `await runIndexer()` has returned.
StartupDone(sc) == sc.pc = "done"

\* startServer: app.listen once the startup scan has returned.
Listen ==
    /\ server = "indexing"
    /\ StartupDone(scan[StartupScan])
    /\ server' = "listening"
    /\ lastSearch' = NoSearch
    /\ UNCHANGED <<files, edits, collection, processedHashes, nextId, scan,
                   visits, sent, cleanRun, second, passSize, chat, boots,
                   segCall, cosCall>>

\* routes/reindex.js: the reply sent once `await runIndexer()` has returned.
ReindexResponse(sc) ==
    IF sc.pc = "done"
    THEN [status |-> 200, success |-> TRUE,
          message |-> <<"Reindexing complete.">>]
    ELSE [status |-> 0]

\* routes/reindex.js: POST /reindex calls runIndexer.
Reindex(s) ==
    /\ server = "listening"
    /\ s \in 1..MaxReindex
    /\ scan[s].pc = "idle"
    /\ \A t \in 1..(s - 1) : scan[t].pc # "idle"
    /\ Begin(s)
    /\ lastSearch' = NoSearch
    /\ UNCHANGED <<files, edits, collection, nextId, server, chat, boots,
                   segCall, cosCall>>

\* routes/reindex.js: the handler takes no lock, so a POST /reindex that
\* arrives while an earlier one awaits a promise calls runIndexer as well.
ReindexDuring(s) ==
    /\ server = "listening"
    /\ s = OverlapScan
    /\ scan[s].pc = "idle"
    /\ \E t \in 1..MaxReindex : Active(scan[t])
    /\ Begin(s)
    /\ lastSearch' = NoSearch
    /\ UNCHANGED <<files, edits, collection, nextId, server, chat, boots,
                   segCall, cosCall>>

\* The startup scan while the environment rewrites file d: the rewrite lands
\* after getFileHash has read the file and before extractChunksFromJson
\* reads it again.
StartupRacing(d, c) ==
    LET s == StartupScan
        rewritten == [files EXCEPT ![d] = c]
        cx == VisitFilesReading(
                  [sc |-> [IdleScan EXCEPT !.jsonFiles = FindJsonFiles],
                   ph |-> processedHashes, vl |-> <<>>], files, rewritten)
    IN  /\ server = "initialized"
        /\ server' = "indexing"
        /\ edits < MaxEdits
        /\ c # files[d]
        /\ files' = rewritten
        /\ edits' = edits + 1
        /\ scan' = [scan EXCEPT ![s] = cx.sc]
        /\ processedHashes' = cx.ph
        /\ visits' = [visits EXCEPT ![s] = cx.vl]
        /\ sent' = [sent EXCEPT ![s] = IF cx.sc.pc = "awaitEmbed"
                                        THEN <<PendingCall(cx.sc)>> ELSE <<>>]
        /\ cleanRun' = Dirty
        /\ second' = [t \in ScanIds |->
                        IF t = s \/ Active(scan[t]) THEN FALSE ELSE second[t]]
        /\ passSize' = [passSize EXCEPT ![s] =
                          [call |-> Len(collection),
                           ret  |-> IF cx.sc.pc = "done" THEN Len(collection)
                                                         ELSE NotReturned,
                           edits |-> edits,
                           during |-> {t \in ScanIds \ {s} :
                                          Active(scan[t])}]]
        /\ lastSearch' = NoSearch
        /\ UNCHANGED <<collection, nextId, chat, boots, segCall, cosCall>>

\* `await getEmbeddings(texts)` resolves; the batch is pushed by
\* addChunksToDb, whose returned promise the scan then awaits.
EmbedReturns(s, shape) ==
    LET sc == scan[s]
        batch == Batch(sc)
        texts == Texts(batch)
        embeddings == Response(shape, texts)
        validEmbeddings == ValidEmbeddings(embeddings)
        ids == [k \in 1..Len(batch) |-> nextId + k - 1]
        metadatas == Metadatas(batch)
        call == sent[s][Len(sent[s])]
    IN  /\ sc.pc = "awaitEmbed"
        /\ collection' = AddChunksToDb(collection, ids, validEmbeddings,
                                       metadatas, texts)
        /\ nextId' = nextId + Len(batch)
        /\ scan' = [scan EXCEPT ![s].pc = "awaitAdd"]
        /\ sent' = [sent EXCEPT ![s][Len(sent[s])] =
                      [call EXCEPT !.outcome = "ok", !.ret = embeddings,
                                   !.ids = ids]]
        /\ lastSearch' = NoSearch
        /\ UNCHANGED <<files, edits, processedHashes, server, visits,
                       cleanRun, second, passSize, chat, boots,
                   segCall, cosCall>>

\* `await addChunksToDb(...)` resumes: totalUpserted += texts.length, then
\* the loops go on.
AddResumes(s) ==
    LET sc == scan[s]
        counted == CountUpserted(sc)
        cx == NextBatch([sc |-> counted, ph |-> processedHashes,
                         vl |-> visits[s]], files)
        call == sent[s][Len(sent[s])]
    IN  /\ sc.pc = "awaitAdd"
        /\ scan' = [scan EXCEPT ![s] = cx.sc]
        /\ processedHashes' = cx.ph
        /\ visits' = [visits EXCEPT ![s] = cx.vl]
        /\ sent' = [sent EXCEPT ![s] = Logged(@, call, cx.sc)]
        /\ ResumeHistory(s, cx.sc, Len(collection))
        /\ lastSearch' = NoSearch
    /\ UNCHANGED <<files, edits, collection, nextId, server, chat, boots,
                   segCall, cosCall>>

\* `await getEmbeddings(texts)` rejects (provider error or missing key): the
\* catch block logs and the loops go on.
EmbedRaises(s) ==
    LET sc == scan[s]
        cx == NextBatch([sc |-> sc, ph |-> processedHashes,
                         vl |-> visits[s]], files)
        call == sent[s][Len(sent[s])]
    IN  /\ sc.pc = "awaitEmbed"
        /\ collection' = CatchBatchError(collection, Batch(sc))
        /\ scan' = [scan EXCEPT ![s] = cx.sc]
        /\ processedHashes' = cx.ph
        /\ visits' = [visits EXCEPT ![s] = cx.vl]
        /\ sent' = [sent EXCEPT ![s] =
                      Logged(@, [call EXCEPT !.outcome = "raised"], cx.sc)]
        /\ ResumeHistory(s, cx.sc,
                         Len(CatchBatchError(collection, Batch(sc))))
        /\ lastSearch' = NoSearch
        /\ UNCHANGED <<files, edits, nextId, server, chat, boots,
                   segCall, cosCall>>

\* The environment rewrites a source file.
EditFile(d, c) ==
    /\ edits < MaxEdits
    /\ c # files[d]
    /\ files' = [files EXCEPT ![d] = c]
    /\ edits' = edits + 1
    /\ cleanRun' = Dirty
    /\ second' = [t \in ScanIds |-> IF Active(scan[t]) THEN FALSE ELSE second[t]]
    /\ lastSearch' = NoSearch
    /\ UNCHANGED <<collection, processedHashes, nextId, server, scan,
                   visits, sent, passSize, chat, boots,
                   segCall, cosCall>>

\* A request handler calls searchSimilarChunks.
Query(q, topK) ==
    /\ server = "listening"
    /\ lastSearch' = SearchSimilarChunks(collection, q, topK)
    /\ collection' = lastSearch'.store
    /\ UNCHANGED <<files, edits, processedHashes, nextId, server,
                   scan, visits, sent, cleanRun, second, passSize, chat, boots,
                   segCall, cosCall>>

\* POST /chat arrives: the handler runs to its first await or to the 400.
Ask(r, question) ==
    /\ server = "listening"
    /\ chat[r].pc = "idle"
    /\ \A t \in 1..(r - 1) : chat[t].pc # "idle"
    /\ chat' = [chat EXCEPT ![r] = ChatStart(question)]
    /\ lastSearch' = NoSearch
    /\ UNCHANGED <<files, edits, collection, processedHashes, nextId, server,
                   scan, visits, sent, cleanRun, second, passSize, boots,
                   segCall, cosCall>>

\* `await getEmbeddings([question])` resolves: the store is searched for the
\* five best chunks and the handler goes on with what the search returned.
ChatEmbedReturns(r, shape, q) ==
    LET c == chat[r]
        questionEmbeddingResult ==
            IF shape = "nested" THEN [kind |-> "nested", val |-> <<q>>]
                                ELSE [kind |-> "flat", val |-> q]
        questionEmbedding == QuestionEmbedding(questionEmbeddingResult)
        searchResults == SearchSimilarChunks(collection, questionEmbedding,
                                             TOP_K)
    IN  /\ c.pc = "awaitEmbed"
        /\ chat' = [chat EXCEPT ![r] =
                      AfterSearch([c EXCEPT !.questionEmbedding =
                                               questionEmbedding],
                                  searchResults)]
        /\ lastSearch' = searchResults
        /\ collection' = lastSearch'.store
        /\ UNCHANGED <<files, edits, processedHashes, nextId,
                       server, scan, visits, sent, cleanRun, second,
                       passSize, boots,
                   segCall, cosCall>>

\* `await getEmbeddings([question])` or `await fetchLlmResponse(...)`
\* rejects: the catch block answers 500.
ChatCallRaises(r) ==
    /\ chat[r].pc \in {"awaitEmbed", "awaitLlm"}
    /\ chat' = [chat EXCEPT ![r] =
                  [CatchChatError(@) EXCEPT
                     !.raised = IF chat[r].pc = "awaitEmbed"
                                THEN "embedding" ELSE "generation"]]
    /\ lastSearch' = NoSearch
    /\ UNCHANGED <<files, edits, collection, processedHashes, nextId, server,
                   scan, visits, sent, cleanRun, second, passSize, boots,
                   segCall, cosCall>>

\* `await fetchLlmResponse(...)` resolves: the answer goes out with the
\* sources of the retrieved chunks.
ChatLlmReturns(r, a) ==
    LET c == chat[r]
        llmAnswer == Generated(a)
        sourcesArray == SourcesArray(c.chunksMeta, Len(c.chunksMeta))
    IN  /\ c.pc = "awaitLlm"
        /\ chat' = [chat EXCEPT ![r].pc = "done",
                                ![r].response = Answer(llmAnswer, sourcesArray)]
        /\ lastSearch' = NoSearch
        /\ UNCHANGED <<files, edits, collection, processedHashes, nextId,
                       server, scan, visits, sent, cleanRun, second,
                       passSize, boots,
                   segCall, cosCall>>

\* The process is stopped and started again (a redeploy, a cold start): the
\* modules are loaded afresh and startServer runs from its beginning.
Restart ==
    /\ Len(boots) < MaxRestarts
    /\ boots' = Append(boots, Cardinality({d \in Docs :
                                             processedHashes[d] # Undefined}))
    /\ collection' = NewCollection
    /\ processedHashes' = NewProcessedHashes(processedHashes)
    /\ nextId' = 1
    /\ server' = "boot"
    /\ scan' = [s \in ScanIds |-> IdleScan]
    /\ chat' = [r \in Requests |-> NoChat]
    /\ lastSearch' = NoSearch
    /\ visits' = [s \in ScanIds |-> <<>>]
    /\ sent' = [s \in ScanIds |-> <<>>]
    /\ cleanRun' = [st |-> "none", id |-> 0]
    /\ second' = [s \in ScanIds |-> FALSE]
    /\ passSize' = [s \in ScanIds |->
                     [call |-> 0, ret |-> NotReturned, edits |-> 0,
                      during |-> {}]]
    /\ UNCHANGED <<files, edits, segCall, cosCall>>

\* The indexing system: startup, scans, manual re-index and file rewrites.
Next ==
    \/ InitializeVectorDb
    \/ StartupIndex
    \/ Listen
    \/ \E s \in ScanIds : Reindex(s)
    \/ \E s \in ScanIds, shape \in Shapes : EmbedReturns(s, shape)
    \/ \E s \in ScanIds : AddResumes(s)
    \/ \E s \in ScanIds : EmbedRaises(s)
    \/ \E d \in Docs, c \in Contents : EditFile(d, c)

Spec == Init /\ [][Next]_vars

\* The indexing system when every awaited promise is settled: a call of
\* getEmbeddings returns or raises, and the promise of addChunksToDb, which
\* is already resolved, resumes the scan.  The data directory starts with a
\* document of two batches and unparsable ones; rewrites bring in the other
\* contents.
InitSettled ==
    /\ Init
    /\ files = [d \in Docs |-> IF d = 1 THEN "big" ELSE "bad"]

SpecSettled ==
    /\ InitSettled
    /\ [][Next]_vars
    /\ \A s \in ScanIds \ {OverlapScan} :
          /\ WF_vars((\E shape \in Shapes : EmbedReturns(s, shape))
                        \/ EmbedRaises(s))
          /\ WF_vars(AddResumes(s))

\* The indexing system with a manual re-index requested during another.
NextOverlap ==
    \/ Next
    \/ ReindexDuring(OverlapScan)

SpecOverlap == Init /\ [][NextOverlap]_vars

\* The indexing system with file rewrites that land between the two reads
\* of a scan.
NextRace ==
    \/ Next
    \/ \E d \in Docs, c \in Contents : StartupRacing(d, c)

SpecRace == Init /\ [][NextRace]_vars

\* searchSimilarChunks applied, with every query vector and every topK, to
\* the stores the startup scan can build.
NextSearch ==
    \/ InitializeVectorDb
    \/ StartupIndex
    \/ Listen
    \/ \E shape \in Shapes : EmbedReturns(StartupScan, shape)
    \/ AddResumes(StartupScan)
    \/ EmbedRaises(StartupScan)
    \/ \E q \in Vectors, topK \in 0..MaxK : Query(q, topK)

SpecSearch == Init /\ [][NextSearch]_vars

\* The running server: searches made while a manual re-index of one data
\* directory is in progress.
InitServe ==
    /\ Init
    /\ files = [d \in Docs |-> IF d = 1 THEN "big" ELSE "small"]

NextServe ==
    \/ Next
    \/ /\ \E s \in ScanIds \ {StartupScan} : Active(scan[s])
       /\ \E q \in Vectors, topK \in 0..MaxK : Query(q, topK)

SpecServe == InitServe /\ [][NextServe]_vars

\* The question-answering route over the stores the startup scan can build,
\* with manual re-index requests in between.
NextChat ==
    \/ InitializeVectorDb
    \/ StartupIndex
    \/ Listen
    \/ \E s \in ScanIds : Reindex(s)
    \/ \E s \in ScanIds, shape \in Shapes : EmbedReturns(s, shape)
    \/ \E s \in ScanIds : AddResumes(s)
    \/ \E s \in ScanIds : EmbedRaises(s)
    \/ \E r \in Requests, question \in Questions : Ask(r, question)
    \/ \E r \in Requests, shape \in Shapes, q \in Vectors :
          ChatEmbedReturns(r, shape, q)
    \/ \E r \in Requests : ChatCallRaises(r)
    \/ \E r \in Requests, a \in Answers : ChatLlmReturns(r, a)

SpecChat == Init /\ [][NextChat]_vars

\* The segmenter applied to every parsed document, and to unparsable bytes.
InitSegment ==
    /\ Init
    /\ files = [d \in Docs |-> "small"]

ReadFile(parsed) ==
    /\ segCall = NoCall
    /\ segCall' = [done |-> FALSE, file |-> 1, parsed |-> parsed]
    /\ UNCHANGED <<files, edits, collection, processedHashes, nextId, server,
                   scan, lastSearch, visits, sent, cleanRun, second, passSize,
                   chat, boots, cosCall>>

Segment ==
    /\ segCall # NoCall
    /\ ~segCall.done
    /\ segCall' = [done |-> TRUE, file |-> segCall.file,
                   parsed |-> segCall.parsed,
                   chunks |-> ExtractChunks(segCall.file, segCall.parsed)]
    /\ UNCHANGED <<files, edits, collection, processedHashes, nextId, server,
                   scan, lastSearch, visits, sent, cleanRun, second, passSize,
                   chat, boots, cosCall>>

NextSegment ==
    \/ \E parsed \in JsonDocs \cup {ParseError} : ReadFile(parsed)
    \/ Segment

SpecSegment == InitSegment /\ [][NextSegment]_vars

\* cosineSimilarity applied on its own, to numbers of every magnitude.
InitCosine ==
    /\ Init
    /\ files = [d \in Docs |-> "small"]

\* Components: small integers, 2^600 whose square overflows, 2^-537, the
\* least power of two whose square is not zero, and 2^-600 whose square
\* underflows to zero.
Samples ==
    {Num(0, 0), Num(1, 0), Num(-1, 0), Num(3, 0),
     Num(1, 600), Num(1, -537), Num(1, -600)}
SampleVectors == [1..Dim -> Samples]
ZeroVector == [i \in 1..Dim |-> Num(0, 0)]
NegVector(vec) == [i \in 1..Len(vec) |-> Neg(vec[i])]
\* Argument pairs: a vector with itself, with its negation and with the
\* zero vector, and every pair of vectors the store and a query can hold.
CosinePairs ==
    {<<v, v>> : v \in SampleVectors}
      \cup {<<v, NegVector(v)>> : v \in SampleVectors}
      \cup {<<v, ZeroVector>> : v \in SampleVectors}
      \cup {<<ZeroVector, v>> : v \in SampleVectors}
      \cup {<<Numbers(p[1]), Numbers(p[2])>> : p \in Vectors \X Vectors}

CallCosine(vecA, vecB) ==
    /\ cosCall = NoCall
    /\ cosCall' = [done |-> FALSE, vecA |-> vecA, vecB |-> vecB]
    /\ UNCHANGED <<files, edits, collection, processedHashes, nextId, server,
                   scan, lastSearch, visits, sent, cleanRun, second, passSize,
                   chat, boots, segCall>>

ReturnCosine ==
    /\ cosCall # NoCall
    /\ ~cosCall.done
    /\ cosCall' = [done |-> TRUE, vecA |-> cosCall.vecA,
                   vecB |-> cosCall.vecB,
                   result |-> CosineSimilarity(cosCall.vecA, cosCall.vecB)]
    /\ UNCHANGED <<files, edits, collection, processedHashes, nextId, server,
                   scan, lastSearch, visits, sent, cleanRun, second, passSize,
                   chat, boots, segCall>>

NextCosine ==
    \/ \E p \in CosinePairs : CallCosine(p[1], p[2])
    \/ ReturnCosine

SpecCosine == InitCosine /\ [][NextCosine]_vars

\* The indexing system across process restarts.
NextRestart == Next \/ Restart

SpecRestart == Init /\ [][NextRestart]_vars

(* ======================= properties of the claims ====================== *)
Range(f) == {f[k] : k \in DOMAIN f}
\* (scan, index) pairs of the logged getEmbeddings calls and visits
SentAt == UNION {{<<s, k>> : k \in 1..Len(sent[s])} : s \in ScanIds}
VisitAt == UNION {{<<s, k>> : k \in 1..Len(visits[s])} : s \in ScanIds}
CallsFor(s, d) == {k \in 1..Len(sent[s]) : sent[s][k].doc = d}
\* offsets of the batches a document of n chunks is cut into
BatchOffsets(n) == {j \in 0..(n - 1) : j % BATCH_SIZE = 0}
\* positions in the store of the records pushed for a logged call
StoredFor(e) == {k \in 1..Len(collection) : collection[k].id \in Range(e.ids)}
DigestChanged(v) == v.prev = Undefined \/ v.prev # v.cur

\* C1: in every scan a document is segmented and its chunks are sent to the
\* embedding capability if and only if no digest is recorded for it or the
\* recorded digest differs from the digest of its current bytes; a document
\* with an equal digest causes no embedding call and no change to the store
\* (every stored record stems from an embedding call for a changed document).
C1_ReindexIffChanged ==
    /\ \A p \in VisitAt :
         LET s == p[1]
             v == visits[s][p[2]]
         IN  /\ v.segmented <=> DigestChanged(v)
             /\ ~DigestChanged(v) => CallsFor(s, v.doc) = {}
             /\ (DigestChanged(v) /\ v.done) =>
                  {sent[s][k].offset : k \in CallsFor(s, v.doc)}
                    = BatchOffsets(v.nChunks)
    /\ \A p \in SentAt :
         \E k \in 1..Len(visits[p[1]]) :
            /\ visits[p[1]][k].doc = sent[p[1]][p[2]].doc
            /\ DigestChanged(visits[p[1]][k])
    /\ \A k \in 1..Len(collection) :
         \E p \in SentAt : /\ sent[p[1]][p[2]].outcome = "ok"
                           /\ collection[k].id \in Range(sent[p[1]][p[2]].ids)

\* A scan skipped an unchanged document and a scan embedded a changed one.
C1_Witness ==
    /\ \E p \in VisitAt : ~visits[p[1]][p[2]].segmented
    /\ \E p \in VisitAt : /\ visits[p[1]][p[2]].segmented
                          /\ visits[p[1]][p[2]].done
                          /\ visits[p[1]][p[2]].nChunks > BATCH_SIZE

\* C2: a full scan run right after an undisturbed full scan, with no source
\* document changed from the start of the first to the end of the second,
\* calls the embedding capability for nothing and inserts no record,
\* whatever the first run's batches did.
C2_SecondScanInsertsNothing ==
    \A s \in ScanIds :
        second[s] =>
            /\ sent[s] = <<>>
            /\ \A k \in 1..Len(collection) :
                 \A j \in 1..Len(sent[s]) :
                    collection[k].id \notin Range(sent[s][j].ids)
            /\ scan[s].totalUpserted = 0

\* A second run has returned after a first run in which one batch failed
\* and another succeeded.
C2_Witness ==
    \E s \in ScanIds \ {StartupScan} :
        /\ second[s]
        /\ scan[s].pc = "done"
        /\ \E k \in 1..Len(sent[StartupScan]) :
              sent[StartupScan][k].outcome = "raised"
        /\ \E k \in 1..Len(sent[StartupScan]) :
              sent[StartupScan][k].outcome = "ok"

\* Scan s's pending getEmbeddings call rejects in this step.
RaiseStep(s) ==
    /\ scan[s].pc = "awaitEmbed"
    /\ sent'[s][Len(sent[s])].outcome = "raised"
\* The visit of scan s to the document it is working on.
CurrentVisit(s) == visits[s][Len(visits[s])]

\* C3: when the embedding capability raises for a batch, the store is left
\* as it was (none of the batch's chunks is inserted), no batch is sent to
\* the embedding capability twice in a scan, and the scan goes on: the next
\* batch of the document is sent if there is one, otherwise the document is
\* finished, and a scan that has returned has visited every document and
\* sent every batch of every changed document.
C3_FailedBatchSkipped ==
    [][\A s \in ScanIds :
         /\ RaiseStep(s) =>
              /\ collection' = collection
              /\ sent'[s][Len(sent[s])].ids = <<>>
              /\ IF scan[s].i + BATCH_SIZE < CurrentVisit(s).nChunks
                 THEN /\ scan'[s].pc = "awaitEmbed"
                      /\ scan'[s].fi = scan[s].fi
                      /\ scan'[s].i = scan[s].i + BATCH_SIZE
                      /\ sent'[s][Len(sent'[s])].outcome = "pending"
                 ELSE /\ visits'[s][Len(visits[s])].done
                      /\ scan'[s].fi > scan[s].fi
         /\ \A a, b \in 1..Len(sent'[s]) :
              (a # b /\ sent'[s][a].doc = sent'[s][b].doc)
                 => sent'[s][a].offset # sent'[s][b].offset
         /\ scan'[s].pc = "done" =>
              /\ {visits'[s][k].doc : k \in 1..Len(visits'[s])} = Docs
              /\ \A k \in 1..Len(visits'[s]) :
                   /\ visits'[s][k].done
                   /\ visits'[s][k].segmented =>
                        {sent'[s][j].offset :
                           j \in {c \in 1..Len(sent'[s]) :
                                    sent'[s][c].doc = visits'[s][k].doc}}
                          = BatchOffsets(visits'[s][k].nChunks)
      ]_vars

\* A scan has returned whose first batch of a two-batch document failed,
\* whose second batch was stored, and whose later document was stored too.
C3_Witness ==
    \E s \in ScanIds :
        /\ scan[s].pc = "done"
        /\ \E a, b, c \in 1..Len(sent[s]) :
              /\ sent[s][a].outcome = "raised" /\ sent[s][a].offset = 0
              /\ sent[s][b].outcome = "ok" /\ sent[s][b].doc = sent[s][a].doc
              /\ sent[s][b].offset = BATCH_SIZE
              /\ StoredFor(sent[s][b]) # {}
              /\ sent[s][c].outcome = "ok" /\ sent[s][c].doc # sent[s][a].doc
              /\ c > b

\* The visit with number k of scan s is completed by this step.
Completes(s, k) ==
    /\ k <= Len(visits'[s])
    /\ visits'[s][k].segmented
    /\ visits'[s][k].done
    /\ (k > Len(visits[s]) \/ ~visits[s][k].done)

\* C4: when a scan finishes its visit to a changed or new document, the
\* digest it computed for the document is the one recorded as processed,
\* however many of the document's batches failed; and a scan that finds the
\* recorded digest equal to the current one does not embed the document.
C4_DigestRecordedDespiteFailures ==
    [][\A s \in ScanIds :
         /\ \A k \in 1..NumDocs :
              Completes(s, k) =>
                 processedHashes'[visits'[s][k].doc] = visits'[s][k].cur
         /\ \A k \in 1..Len(visits'[s]) :
              visits'[s][k].prev = visits'[s][k].cur =>
                 /\ ~visits'[s][k].segmented
                 /\ \A j \in 1..Len(sent'[s]) :
                      sent'[s][j].doc # visits'[s][k].doc
      ]_vars

\* Every batch of a document failed in one scan, its digest is recorded, and
\* a later scan skipped the document.
C4_Witness ==
    \E s, t \in ScanIds :
      \E k \in 1..Len(visits[s]), m \in 1..Len(visits[t]) :
        /\ s # t
        /\ visits[s][k].done /\ visits[s][k].nChunks > BATCH_SIZE
        /\ \A j \in CallsFor(s, visits[s][k].doc) : sent[s][j].outcome = "raised"
        /\ visits[t][m].doc = visits[s][k].doc
        /\ visits[t][m].prev = visits[s][k].cur
        /\ ~visits[t][m].segmented
        /\ processedHashes[visits[s][k].doc] = visits[s][k].cur

\* The response holds one vector for each text of the batch.
OneVectorPerText(e) ==
    \/ e.ret.kind = "nested" /\ Len(e.ret.val) = Len(e.texts)
    \/ e.ret.kind = "flat" /\ Len(e.texts) = 1
\* The i-th vector of a response.
Returned(e, i) == IF e.ret.kind = "nested" THEN e.ret.val[i] ELSE e.ret.val

\* C7: for every batch [t1..tn] for which the embedding capability returned
\* one vector per text, the store holds for every i exactly one record with
\* the i-th identifier of the batch, and that record has text ti, the
\* metadata of chunk i and the i-th returned vector as its embedding.
C7_VectorMatchesText ==
    \A p \in SentAt :
        LET e == sent[p[1]][p[2]]
        IN  (e.outcome = "ok" /\ OneVectorPerText(e)) =>
              \A i \in 1..Len(e.texts) :
                 /\ Cardinality({k \in 1..Len(collection) :
                                    collection[k].id = e.ids[i]}) = 1
                 /\ \A k \in 1..Len(collection) :
                      collection[k].id = e.ids[i] =>
                         /\ collection[k].document = e.texts[i]
                         /\ collection[k].metadata = e.metadatas[i]
                         /\ collection[k].embedding = Returned(e, i)

\* A stored batch of several texts whose vectors are not all the same.
C7_Witness ==
    \E p \in SentAt :
        LET e == sent[p[1]][p[2]]
        IN  /\ e.outcome = "ok"
            /\ e.ret.kind = "nested"
            /\ Len(e.texts) = BATCH_SIZE
            /\ \E i, j \in 1..Len(e.texts) : e.ret.val[i] # e.ret.val[j]
            /\ Cardinality(StoredFor(e)) = BATCH_SIZE

\* C8: every stored record has an embedding that is a vector of the
\* embedding dimensionality, whatever shape the embedding call returned.
C8_UniformEmbeddingLength ==
    \A k \in 1..Len(collection) :
        /\ collection[k].embedding # Undefined
        /\ Len(collection[k].embedding) = Dim

\* C10: once the store is initialised it only grows at its end: no step
\* removes or changes a stored record.
C10_AppendOnly ==
    [][server # "boot" => IsPrefix(collection, collection')]_vars

\* The store holds records cut from two different contents of one document.
C10_Witness ==
    \E a, b \in 1..Len(collection) :
        /\ a < b
        /\ collection[a].metadata.path = collection[b].metadata.path
        /\ collection[a].document[2] # collection[b].document[2]

\* Order of two scores.
ScoreEq(x, y) == SignOf(Differences[<<x, y>>]) = 0
ScoreGeq(x, y) == SignOf(Differences[<<x, y>>]) >= 0
\* The score the latest search computes for the stored record number j.
ScoreOfStored(j) == Score(lastSearch.q, collection[j].embedding)

\* C5: every call of searchSimilarChunks returns (it does not raise) a
\* result whose scores are in non-increasing order and whose length is
\* min(topK, number of stored records); on an empty store it is empty.
C5_TopKSortedAndSized ==
    lastSearch.status # "none" =>
        /\ lastSearch.status = "ok"
        /\ Len(lastSearch.distances) = Min(lastSearch.topK, lastSearch.size)
        /\ Len(lastSearch.documents) = Len(lastSearch.distances)
        /\ Len(lastSearch.metadatas) = Len(lastSearch.distances)
        /\ \A a, b \in 1..Len(lastSearch.distances) :
              a < b => ScoreGeq(lastSearch.distances[a], lastSearch.distances[b])

\* C6: in a search result, of two stored records with the same score the
\* one inserted earlier comes first, and a record left out by the top-K cut
\* was inserted later than every returned record with the same score.
C6_TiesKeepInsertionOrder ==
    lastSearch.status = "ok" =>
        /\ \A a, b \in 1..Len(lastSearch.order) :
              (a < b /\ ScoreEq(lastSearch.distances[a], lastSearch.distances[b]))
                 => lastSearch.order[a] < lastSearch.order[b]
        /\ \A a \in 1..Len(lastSearch.order) :
              \A j \in 1..Len(collection) :
                 (j \notin Range(lastSearch.order)
                    /\ ScoreEq(ScoreOfStored(j), lastSearch.distances[a]))
                    => lastSearch.order[a] < j

\* A result with two equal scores, cut between two records of equal score.
C6_Witness ==
    /\ lastSearch.status = "ok"
    /\ \E a, b \in 1..Len(lastSearch.order) :
          /\ a < b
          /\ ScoreEq(lastSearch.distances[a], lastSearch.distances[b])
          /\ ~IsZero(lastSearch.distances[a])
    /\ \E j \in 1..Len(collection) :
          /\ j \notin Range(lastSearch.order)
          /\ ScoreEq(ScoreOfStored(j),
                     lastSearch.distances[Len(lastSearch.order)])

\* C9: a search that runs while a manual re-index is in progress sees every
\* batch either whole or not at all, and sees no record that lacks its
\* embedding, its metadata or its text.
C9_QuerySeesWholeBatches ==
    (lastSearch.status # "none"
       /\ \E s \in ScanIds \ {StartupScan} : Active(scan[s])) =>
        /\ \A p \in SentAt :
              LET e == sent[p[1]][p[2]]
              IN  Cardinality(StoredFor(e)) \in {0, Len(e.texts)}
        /\ \A k \in 1..Len(collection) :
              \E p \in SentAt :
                 collection[k].id \in Range(sent[p[1]][p[2]].ids)
        /\ \A k \in 1..Len(collection) :
              /\ collection[k].embedding # Undefined
              /\ collection[k].metadata # Undefined
              /\ collection[k].document # Undefined

\* C11: when the search made for a question returns no chunk, which happens
\* exactly on an empty store, the request ends with the fixed
\* insufficient-information answer and an empty source list as a normal
\* (status 200) response, and the generation capability is not called for
\* the request, neither then nor later.
C11_EmptyContextAnswer ==
    [][\A r \in Requests :
         /\ (chat[r].pc = "awaitEmbed" /\ chat'[r].pc # "awaitEmbed"
               /\ lastSearch'.status = "ok") =>
              /\ (Len(lastSearch'.documents) = 0) <=> (lastSearch'.size = 0)
              /\ Len(lastSearch'.documents) = 0 =>
                    /\ chat'[r].pc = "done"
                    /\ chat'[r].response = Answer(INSUFFICIENT, <<>>)
                    /\ chat'[r].response.status = 200
                    /\ chat'[r].llmCalls = 0
         /\ chat[r].pc = "done" => chat'[r] = chat[r]
      ]_vars

\* A question was asked of an empty store after a scan whose batches all
\* failed, and got the fixed answer.
C11_Witness ==
    \E r \in Requests :
        /\ chat[r].response = Answer(INSUFFICIENT, <<>>)
        /\ chat[r].llmCalls = 0
        /\ lastSearch.status = "ok"
        /\ collection = <<>>
        /\ \E k \in 1..Len(sent[StartupScan]) :
              sent[StartupScan][k].outcome = "raised"

\* C12: when getEmbeddings or fetchLlmResponse rejects while a question is
\* answered, the request ends in that step with a failure (status 500)
\* response that carries no answer, the rejected capability has been called
\* exactly once for the request and is not called again, and the store and
\* the table of processed digests are as they were.
C12_ProviderErrorSurfaces ==
    [][\A r \in Requests :
         /\ (chat[r].raised = "none" /\ chat'[r].raised # "none") =>
              /\ chat'[r].pc = "done"
              /\ chat'[r].response.status = 500
              /\ chat'[r].response.kind = "error"
              /\ chat'[r].response.answer = <<>>
              /\ chat'[r].embedCalls = 1
              /\ chat'[r].llmCalls =
                    (IF chat'[r].raised = "generation" THEN 1 ELSE 0)
              /\ collection' = collection
              /\ processedHashes' = processedHashes
         /\ chat[r].raised # "none" => chat'[r] = chat[r]
      ]_vars

\* One request failed at the generation call after a successful search.
C12_Witness ==
    \E r \in Requests :
        /\ chat[r].raised = "generation"
        /\ chat[r].pc = "done"
        /\ Len(chat[r].chunksText) = TOP_K

\* C19: the source list sent with a generated answer has no duplicates and
\* its members are exactly the sources found in the metadata of the
\* retrieved chunks.
C19_SourcesDeduplicated ==
    \A r \in Requests :
        (chat[r].response.kind = "answer"
           /\ chat[r].response.answer # INSUFFICIENT) =>
            LET sources == chat[r].response.sources
            IN  /\ Cardinality(Range(sources)) = Len(sources)
                /\ Range(sources) =
                     {chat[r].chunksMeta[k].source :
                        k \in {j \in 1..Len(chat[r].chunksMeta) :
                                 chat[r].chunksMeta[j].source # Undefined}}

\* An answer built on five chunks from two documents names two sources.
C19_Witness ==
    \E r \in Requests :
        /\ chat[r].response.kind = "answer"
        /\ Len(chat[r].chunksMeta) = TOP_K
        /\ Len(chat[r].response.sources) = 2
        /\ chat[r].chunksMeta[1].source = chat[r].chunksMeta[2].source

\* The positions startServer goes through, in order.
ServerOrder(a, b) ==
    <<a, b>> \in {<<"boot", "initialized">>, <<"initialized", "indexing">>,
                  <<"indexing", "listening">>}

\* C15: at process start the store is initialised first, then the startup
\* scan runs from its call to its return, and only then does the server
\* listen; no question is taken up and no manual re-index starts before the
\* startup scan has returned.
C15_StartupOrder ==
    [][/\ server' # server => ServerOrder(server, server')
       /\ server' \in {"boot", "initialized"} =>
             scan'[StartupScan].pc = "idle"
       /\ server' = "indexing" => scan'[StartupScan].pc # "idle"
       /\ server' = "listening" => scan'[StartupScan].pc = "done"
       /\ ((\E r \in Requests : chat'[r].pc # "idle")
            \/ (\E s \in ScanIds \ {StartupScan} : scan'[s].pc # "idle")) =>
             /\ server' = "listening"
             /\ scan'[StartupScan].pc = "done"
      ]_vars

\* A question was answered and a manual re-index ran after a startup scan
\* that had to wait for the embedding capability.
C15_Witness ==
    /\ server = "listening"
    /\ sent[StartupScan] # <<>>
    /\ \E r \in Requests : chat[r].response.kind = "answer"
    /\ \E s \in ScanIds \ {StartupScan} : scan[s].pc = "done"

\* The visit looked at bytes that JSON.parse rejects.
Unparsable(v) == v.cur = GetFileHash("bad")

\* C13: a document whose bytes cannot be parsed yields zero chunks, causes
\* no embedding call and no stored record, does not stop the scan (the next
\* document is visited in the same run), and its digest is recorded as
\* processed when the scan leaves it.
C13_UnparsableDocumentSkipped ==
    [][\A s \in ScanIds :
         \A k \in 1..Len(visits'[s]) :
            LET v == visits'[s][k]
            IN  (Unparsable(v) /\ DigestChanged(v)) =>
                  /\ v.segmented /\ v.nChunks = 0 /\ v.done
                  /\ \A j \in 1..Len(sent'[s]) : sent'[s][j].doc # v.doc
                  /\ \A j \in 1..Len(collection') :
                        collection'[j].document[2] # "bad"
                  /\ k < NumDocs => Len(visits'[s]) > k
                  /\ scan'[s].pc \in {"awaitEmbed", "awaitAdd", "done"}
                  /\ (k > Len(visits[s])) =>
                        processedHashes'[v.doc] = v.cur
      ]_vars

\* A scan that met an unparsable document first has returned after storing
\* the chunks of a later document.
C13_Witness ==
    \E s \in ScanIds :
        /\ scan[s].pc = "done"
        /\ Unparsable(visits[s][1]) /\ visits[s][1].segmented
        /\ processedHashes[visits[s][1].doc] = visits[s][1].cur
        /\ \E j \in 1..Len(sent[s]) :
              /\ sent[s][j].outcome = "ok"
              /\ StoredFor(sent[s][j]) # {}

\* Records of the store pushed by the calls of scan s.
OwnRecords(s) ==
    {k \in 1..Len(collection) :
        \E j \in 1..Len(sent[s]) : collection[k].id \in Range(sent[s][j].ids)}

RECURSIVE LeafValues(_, _)
LeafValues(obj, depth) ==
    IF obj.t = "array"
    THEN LET F[n \in 0..Len(obj.items)] ==
                 IF n = 0 THEN <<>>
                 ELSE F[n - 1] \o LeafValues(obj.items[n], depth)
         IN  F[Len(obj.items)]
    ELSE IF obj.t = "object"
    THEN LET F[n \in 0..Len(obj.entries)] ==
                 IF n = 0 THEN <<>>
                 ELSE F[n - 1] \o LeafValues(obj.entries[n].value, depth + 1)
         IN  F[Len(obj.entries)]
    ELSE <<[value |-> obj,
            words |-> depth + (IF obj.t = "string" THEN obj.words ELSE 1)]>>

RECURSIVE SumWords(_)
SumWords(leaves) ==
    IF leaves = <<>> THEN 0 ELSE leaves[1].words + SumWords(Tail(leaves))

\* The segmenter was applied to a parsed document below the threshold.
SmallDocument ==
    /\ segCall # NoCall
    /\ segCall.done
    /\ segCall.parsed # ParseError
    /\ SumWords(LeafValues(segCall.parsed, 0)) < TARGET_WORDS

\* The text of the chunk holds the whole sentence of leaf number i.
Renders(chunk, leaves, i) ==
    \E k \in 1..Len(chunk.text.body) :
        LET run == chunk.text.body[k]
        IN  /\ run.idx = i
            /\ run.value = leaves[i].value
            /\ run.from = 1
            /\ run.to = leaves[i].words

One == Num(1, 0)
Abs(x) == IF x.k = "nan" THEN x ELSE [x EXCEPT !.s = 1]
Leq(x, y) == SignOf(FSub(y, x)) >= 0
NormOf(vec) == SquaredNorm(vec, Len(vec))
AllZero(vec) == \A i \in 1..Len(vec) : IsZero(vec[i])

\* C17: cosineSimilarity returns 0 whenever the norm of an argument is zero
\* (as it is when all its components are zero); when it divides, the
\* divisor is not zero; a stored zero embedding scores 0 for every query.
C17_ZeroNormScoresZero ==
    /\ cosCall.done =>
          /\ (IsZero(NormOf(cosCall.vecA)) \/ IsZero(NormOf(cosCall.vecB)))
                => cosCall.result = Zero(1)
          /\ (AllZero(cosCall.vecA) \/ AllZero(cosCall.vecB))
                => cosCall.result = Zero(1)
          /\ ~(IsZero(NormOf(cosCall.vecA)) \/ IsZero(NormOf(cosCall.vecB)))
                => ~IsZero(Denominator(NormOf(cosCall.vecA),
                                       NormOf(cosCall.vecB)))
    /\ \A q \in Vectors : Score(q, [i \in 1..Dim |-> 0]) = Zero(1)

\* cosineSimilarity has returned for a zero vector and a non-zero one.
C17_Witness ==
    /\ cosCall.done
    /\ AllZero(cosCall.vecB)
    /\ ~AllZero(cosCall.vecA)
    /\ cosCall.result = Zero(1)

\* cosineSimilarity has divided by the least divisor there is.
C17_LeastDivisor ==
    /\ cosCall.done
    /\ ~IsZero(NormOf(cosCall.vecA))
    /\ Denominator(NormOf(cosCall.vecA), NormOf(cosCall.vecB))
          = Num(1, MIN_EXP)

\* C18 as stated: cosineSimilarity(v, v) is exactly 1.0 and
\* cosineSimilarity(v, -v) exactly -1.0 for every non-zero vector v.
C18_ExactlyOne ==
    (cosCall.done /\ ~AllZero(cosCall.vecA)) =>
        /\ cosCall.vecB = cosCall.vecA => cosCall.result = One
        /\ cosCall.vecB = NegVector(cosCall.vecA)
              => cosCall.result = Neg(One)

\* The squared norm is far enough from overflow and from underflow for
\* the product of its two roots to be a normal number.
InRange(norm) ==
    /\ norm.k = "fin"
    /\ Leq(Num(1, -1021), norm)
    /\ Leq(norm, Num(1, 1023))

\* C18 amended: for a non-zero vector v whose squared norm is in range,
\* cosineSimilarity(v, v) lies within 2^-51 of 1 and cosineSimilarity(v, -v)
\* is its negation; when the squared norm overflows both are NaN, and when
\* it underflows to zero both are 0.
C18_NearOne ==
    (cosCall.done /\ ~AllZero(cosCall.vecA)
       /\ cosCall.vecB \in {cosCall.vecA, NegVector(cosCall.vecA)}) =>
        LET norm == NormOf(cosCall.vecA)
            same == CosineSimilarity(cosCall.vecA, cosCall.vecA)
        IN  /\ InRange(norm) =>
                  /\ Leq(Abs(FSub(same, One)), Num(1, -51))
                  /\ cosCall.vecB = cosCall.vecA => cosCall.result = same
                  /\ cosCall.vecB = NegVector(cosCall.vecA)
                        => cosCall.result = Neg(same)
            /\ norm.k = "inf" => cosCall.result = NaN
            /\ IsZero(norm) => cosCall.result = Zero(1)

\* cosineSimilarity(v, v) has returned a number that is not 1.
C18_Witness ==
    /\ cosCall.done
    /\ ~AllZero(cosCall.vecA)
    /\ cosCall.vecB = cosCall.vecA
    /\ InRange(NormOf(cosCall.vecA))
    /\ cosCall.result # One

\* The visit of scan s to document d.
VisitOf(s, d) == visits[s][CHOOSE k \in 1..Len(visits[s]) : visits[s][k].doc = d]
\* The number of batches a document of n chunks is cut into: ceil(n / 10).
BatchCount(n) == (n + BATCH_SIZE - 1) \div BATCH_SIZE

\* C21: for a changed document of n chunks a scan makes exactly ceil(n/10)
\* embedding calls: the calls come in the order of the chunks, the call
\* at offset j carries the chunks j+1 .. min(j+10, n) in order (ten chunks
\* except possibly in the last call), every chunk is in exactly one call
\* and no offset is sent twice.
C21_BatchesPartitionChunks ==
    \A s \in ScanIds :
        /\ \A j \in 1..Len(sent[s]) :
             LET e == sent[s][j]
                 n == VisitOf(s, e.doc).nChunks
             IN  /\ e.offset % BATCH_SIZE = 0
                 /\ e.offset < n
                 /\ Len(e.texts) = Min(BATCH_SIZE, n - e.offset)
                 /\ e.offset + BATCH_SIZE < n => Len(e.texts) = BATCH_SIZE
                 /\ \A i \in 1..Len(e.texts) :
                      /\ e.texts[i][1] = FileName(e.doc)
                      /\ e.texts[i][3] = e.offset + i
                 /\ \A b \in 1..Len(sent[s]) :
                      (j < b /\ sent[s][b].doc = e.doc) =>
                         /\ sent[s][b].offset = e.offset
                              + BATCH_SIZE * Cardinality(
                                  {c \in CallsFor(s, e.doc) : j <= c /\ c < b})
                         /\ sent[s][b].texts[1][2] = e.texts[1][2]
        /\ \A k \in 1..Len(visits[s]) :
             LET v == visits[s][k]
             IN  (v.segmented /\ v.done) =>
                   /\ Cardinality(CallsFor(s, v.doc)) = BatchCount(v.nChunks)
                   /\ \A c \in 1..v.nChunks :
                        Cardinality({p \in CallsFor(s, v.doc) \X (1..BATCH_SIZE) :
                                       /\ p[2] <= Len(sent[s][p[1]].texts)
                                       /\ sent[s][p[1]].texts[p[2]][3] = c}) = 1

\* A scan has returned after sending a document of more than ten chunks in
\* two calls, the first of which failed, and a shorter document in one.
C21_Witness ==
    \E s \in ScanIds :
        /\ scan[s].pc = "done"
        /\ \E a, b \in 1..Len(visits[s]) :
              /\ visits[s][a].nChunks > BATCH_SIZE
              /\ Cardinality(CallsFor(s, visits[s][a].doc)) = 2
              /\ \E j \in CallsFor(s, visits[s][a].doc) :
                    sent[s][j].outcome = "raised" /\ sent[s][j].offset = 0
              /\ visits[s][b].segmented
              /\ visits[s][b].nChunks < BATCH_SIZE
              /\ Cardinality(CallsFor(s, visits[s][b].doc)) = 1

\* The documents scan s has finished with.
Visited(s) == {visits[s][k].doc : k \in {j \in 1..Len(visits[s]) : visits[s][j].done}}

\* C22: when every call of the embedding capability returns or raises, a
\* scan that has been called returns, whatever parse failures and embedding
\* failures it meets, and on its return it has visited every document of
\* the data directory.
C22_ScanReturns ==
    \A s \in ScanIds \ {OverlapScan} :
        (scan[s].pc # "idle") ~> (scan[s].pc = "done" /\ Visited(s) = Docs)

\* A scan has returned after an unparsable document and a document of which
\* one embedding call failed and another succeeded.
C22_Witness ==
    \E s \in ScanIds :
        /\ scan[s].pc = "done"
        /\ Visited(s) = Docs
        /\ \E k \in 1..Len(visits[s]) :
              visits[s][k].segmented /\ visits[s][k].nChunks = 0
        /\ \E a, b \in 1..Len(sent[s]) :
              sent[s][a].outcome = "raised" /\ sent[s][b].outcome = "ok"

\* C23: a call of searchSimilarChunks, with any query vector and any topK,
\* leaves the store as it was (the same records with the same fields in
\* the same order) and leaves the table of processed digests as it was.
C23_SearchReadsOnly ==
    [][lastSearch'.status # "none" =>
          /\ collection' = collection
          /\ processedHashes' = processedHashes]_vars

\* A search over a store of several records returned them in another order
\* than the order of insertion, and the store is as it was.
C23_Witness ==
    /\ lastSearch.status = "ok"
    /\ lastSearch.size > BATCH_SIZE
    /\ \E a, b \in 1..Len(lastSearch.order) :
          a < b /\ lastSearch.order[a] > lastSearch.order[b]
    /\ lastSearch.store = collection

\* C24: when a manual re-index starts while an earlier scan awaits an
\* embedding call, and no file is rewritten from the start of the earlier scan
\* on, no chunk of a document is inserted into the store by both scans.
InsertedBy(s) == {<<sent[s][k].doc, sent[s][k].offset>> :
                     k \in {j \in 1..Len(sent[s]) : sent[s][j].outcome = "ok"}}

C24_OverlapInsertsOnce ==
    \A s, t \in ScanIds :
        (/\ s \in passSize[t].during
         /\ passSize[s].edits = edits
         /\ passSize[t].edits = edits) =>
            InsertedBy(s) \cap InsertedBy(t) = {}

\* C25: the digest a scan records for a document is the digest of the bytes
\* it segmented, also when the file is rewritten during the scan; and when
\* the recorded digest of a document is the digest of its current bytes, the
\* records stored last for it were cut from those bytes.
StoredOf(d) == {k \in 1..Len(collection) : collection[k].metadata.path = d}
LatestOf(d) == collection[CHOOSE k \in StoredOf(d) : \A j \in StoredOf(d) : j <= k]

C25_RecordedDigestIsOfIndexedBytes ==
    /\ \A p \in VisitAt :
          LET v == visits[p[1]][p[2]]
          IN  (v.segmented /\ v.done) => v.read = v.cur
    /\ \A d \in Docs :
          (processedHashes[d] = GetFileHash(files[d]) /\ StoredOf(d) # {}) =>
              LatestOf(d).document[2] = files[d]
====
